---- MODULE Spec2Model ----
(***************************************************************************)
(* Model of the kubectl dispatcher: cmd/kubectl/kubectl.go (main),         *)
(* pkg/dispatcher/dispatcher.go (Dispatcher.Dispatch), pkg/filepath        *)
(* (FilepathBuilder), pkg/client (ServerVersionClient) and pkg/util.       *)
(*                                                                         *)
(* Strings that the code inspects character by character (version          *)
(* components) are tuples of one-character strings; paths, arguments and   *)
(* environment entries are TLA+ strings.  A *version.Info pointer is a     *)
(* record with a "nil" field; an error value is a string, "" being nil.    *)
(***************************************************************************)
EXTENDS Integers, Sequences, FiniteSets, TLC

\* Largest number of arguments after argv[0] in an invocation.
MaxArgs == 2

(***************************************************************************)
(* pkg/util                                                                *)
(***************************************************************************)

\* CopyStrSlice: make + copy; the result shares nothing with s.
CopyStrSlice(s) == [k \in 1..Len(s) |-> s[k]]

\* The element of a set of one element.  A call made on the elements of a set
\* is made on values: its arguments are evaluated once, before the call.
TheValue(S) == CHOOSE x \in S : TRUE

\* The index RemoveAllElements reads in iteration i without the correction
\* for the elements already removed.
UnshiftedIndex(i, rlen, n) == i

\* j := i - (rlen - len(s)), n being len(s) in iteration i.
ShiftedIndex(i, rlen, n) == i - (rlen - n)

\* The loop of RemoveAllElements over the slice arr[off .. off+n) of the
\* backing array arr.  Reading s[j] outside 0 <= j < len(s) is a run-time
\* panic, which ends the loop.  append(s[:j], s[j+1:]...) has capacity to
\* spare, so it shifts the tail left inside the same backing array and shortens
\* the slice by one; the array cell after the new end keeps its old content.
RECURSIVE RemoveLoop(_, _, _, _, _, _)
RemoveLoop(arr, off, n, r, i, rlen) ==
  IF i >= rlen
  THEN [arr |-> arr, len |-> n, panic |-> FALSE]
  ELSE LET j == ShiftedIndex(i, rlen, n)
       IN IF j < 0 \/ j >= n
          THEN [arr |-> arr, len |-> n, panic |-> TRUE]
          ELSE IF arr[off + j + 1] = r
          THEN TheValue({RemoveLoop(s, off, n - 1, r, i + 1, rlen) :
                           s \in {SubSeq(arr, 1, off + j)
                                    \o SubSeq(arr, off + j + 2, off + n)
                                    \o SubSeq(arr, off + n, Len(arr))}})
          ELSE RemoveLoop(arr, off, n, r, i + 1, rlen)

\* RemoveAllElements(s, r) for the slice s = arr[off .. off+n); yields the
\* backing array after the call, the length of the returned slice, and
\* whether the call panicked.
RemoveAllElements(arr, off, n, r) == RemoveLoop(arr, off, n, r, 0, n)

\* The elements of the slice arr[off .. off+n).
SliceOf(arr, off, n) == SubSeq(arr, off + 1, off + n)

\* The loop of FilterList over rl (a sequence), on the slice c = arr[0 .. n).
RECURSIVE FilterLoop(_, _, _, _)
FilterLoop(arr, n, rl, k) ==
  IF k > Len(rl)
  THEN [arr |-> arr, len |-> n, panic |-> FALSE]
  ELSE TheValue({IF res.panic THEN res
                 ELSE FilterLoop(res.arr, res.len, rl, k + 1) :
                   res \in {RemoveAllElements(arr, 0, n, rl[k])}})

\* FilterList that filters l itself instead of a copy of it.
FilterListNoCopy(l, rl) ==
  LET res == FilterLoop(l, Len(l), rl, 1)
  IN [out |-> SliceOf(res.arr, 0, res.len), l |-> res.arr, panic |-> res.panic]

\* FilterList(l, rl): the returned slice, and the caller's l after the call
\* (the loop works on the copy c, so l is not written).
FilterList(l, rl) ==
  LET c == CopyStrSlice(l)
      res == FilterLoop(c, Len(c), rl, 1)
  IN [out |-> SliceOf(res.arr, 0, res.len), l |-> l, panic |-> res.panic]

(***************************************************************************)
(* pkg/filepath                                                            *)
(***************************************************************************)

kubectlDefaultName == "kubectl.default"
kubectlBinaryName == "kubectl"

\* strings.TrimSpace removes these from both ends.
WhiteSpace == {" ", "\t", "\n"}

\* Characters for which unicode.IsDigit holds.  "d" stands for a decimal
\* digit outside ASCII (category Nd), which strconv.Atoi does not accept.
AsciiDigits == {"0", "1", "2", "3", "4", "5", "6", "7", "8", "9"}
IsDigit(c) == c \in AsciiDigits \cup {"d"}

DigitValue(c) ==
  CASE c = "0" -> 0 [] c = "1" -> 1 [] c = "2" -> 2 [] c = "3" -> 3
    [] c = "4" -> 4 [] c = "5" -> 5 [] c = "6" -> 6 [] c = "7" -> 7
    [] c = "8" -> 8 [] c = "9" -> 9

RECURSIVE TrimLeft(_)
TrimLeft(s) ==
  IF s # <<>> /\ Head(s) \in WhiteSpace THEN TrimLeft(Tail(s)) ELSE s

RECURSIVE TrimRight(_)
TrimRight(s) ==
  IF s # <<>> /\ s[Len(s)] \in WhiteSpace
  THEN TrimRight(SubSeq(s, 1, Len(s) - 1)) ELSE s

TrimSpace(s) == TrimRight(TrimLeft(s))

\* The for/break loop of normalizeVersionStr: the leading run of digits.
RECURSIVE LeadingDigits(_)
LeadingDigits(s) ==
  IF s # <<>> /\ IsDigit(Head(s))
  THEN <<Head(s)>> \o LeadingDigits(Tail(s)) ELSE <<>>

normalizeVersionStr(majorMinor) ==
  LET trimmed == TrimSpace(majorMinor)
      versionStr == LeadingDigits(trimmed)
  IN IF trimmed = <<>> THEN [val |-> <<>>, err |-> "empty version string"]
     ELSE IF versionStr = <<>> THEN [val |-> <<>>, err |-> "bad version string"]
     ELSE [val |-> versionStr, err |-> ""]

\* strconv.Atoi on a string of IsDigit characters (the inputs here are far
\* shorter than the 19 digits at which Atoi reports a range error).
RECURSIVE AtoiLoop(_, _)
AtoiLoop(s, acc) ==
  IF s = <<>> THEN acc ELSE AtoiLoop(Tail(s), acc * 10 + DigitValue(Head(s)))

Atoi(str) ==
  IF str = <<>> \/ \E k \in 1..Len(str) : str[k] \notin AsciiDigits
  THEN [n |-> 0, err |-> "invalid syntax"]
  ELSE [n |-> AtoiLoop(str, 0), err |-> ""]

\* isPositiveInteger with "i < 0" for "i <= 0": zero is let through.
isNonNegativeInteger(str) ==
  LET r == Atoi(str) IN ~(r.err # "" \/ r.n < 0)

isPositiveInteger(str) ==
  LET r == Atoi(str) IN ~(r.err # "" \/ r.n <= 0)

\* getMajorVersion that refuses a version without a GitVersion.
getMajorVersionNeedsGitVersion(serverVersion) ==
  IF serverVersion.nil THEN [val |-> <<>>, err |-> "server version is nil"]
  ELSE IF serverVersion.GitVersion = ""
  THEN [val |-> <<>>, err |-> "no git version"]
  ELSE LET r == normalizeVersionStr(serverVersion.Major)
       IN IF r.err # "" THEN r
          ELSE IF ~isPositiveInteger(r.val)
               THEN [val |-> <<>>, err |-> "bad major version string"]
               ELSE r

getMajorVersion(serverVersion) ==
  IF serverVersion.nil THEN [val |-> <<>>, err |-> "server version is nil"]
  ELSE LET r == normalizeVersionStr(serverVersion.Major)
       IN IF r.err # "" THEN r
          ELSE IF ~isPositiveInteger(r.val)
               THEN [val |-> <<>>, err |-> "bad major version string"]
               ELSE r

\* getMinorVersion without the isPositiveInteger check.
getMinorVersionAllowsZero(serverVersion) ==
  IF serverVersion.nil THEN [val |-> <<>>, err |-> "server version is nil"]
  ELSE normalizeVersionStr(serverVersion.Minor)

getMinorVersion(serverVersion) ==
  IF serverVersion.nil THEN [val |-> <<>>, err |-> "server version is nil"]
  ELSE LET r == normalizeVersionStr(serverVersion.Minor)
       IN IF r.err # "" THEN r
          ELSE IF ~isPositiveInteger(r.val)
               THEN [val |-> <<>>, err |-> "bad minor version string"]
               ELSE r

\* string(...) of a tuple of characters.
RECURSIVE Str(_)
Str(s) == IF s = <<>> THEN "" ELSE Head(s) \o Str(Tail(s))

\* createKubectlBinaryFilename with the format "%s-%s.%s".
createKubectlBinaryFilenameDash(major, minor) ==
  kubectlBinaryName \o "-" \o Str(major) \o "." \o Str(minor)

\* fmt.Sprintf("%s.%s.%s", kubectlBinaryName, major, minor)
createKubectlBinaryFilename(major, minor) ==
  kubectlBinaryName \o "." \o Str(major) \o "." \o Str(minor)

\* path/filepath.Join of a clean directory and a file name: an empty directory
\* is dropped, and the root directory already ends with the separator.
Join(dir, name) ==
  IF dir = "" THEN name
  ELSE IF dir = "/" THEN "/" \o name
  ELSE dir \o "/" \o name

\* currentDirectory that uses the directory although the getter returned an
\* error with it.
currentDirectoryIgnoresError(dg) ==
  IF dg.kind # "nil" THEN dg.dir ELSE ""

\* FilepathBuilder.currentDirectory; dg is the builder's dirGetter:
\* [kind |-> "nil"] or [kind |-> "getter", dir, err] with (dir, err) the
\* result of its CurrentDirectory().
currentDirectory(dg) ==
  IF dg.kind # "nil"
  THEN IF dg.err # "" THEN "" ELSE dg.dir
  ELSE ""

DefaultFilePath(dg) == Join(currentDirectory(dg), kubectlDefaultName)

\* VersionedFilePath that builds the file name although getMinorVersion
\* returned an error.
VersionedFilePathIgnoresMinorError(dg, serverVersion) ==
  LET major == getMajorVersion(serverVersion)
      minor == getMinorVersion(serverVersion)
      kubectlFilename ==
        IF ~serverVersion.nil /\ major.err = ""
        THEN createKubectlBinaryFilename(major.val, minor.val)
        ELSE kubectlDefaultName
  IN Join(currentDirectory(dg), kubectlFilename)

VersionedFilePath(dg, serverVersion) ==
  LET major == getMajorVersion(serverVersion)
      minor == getMinorVersion(serverVersion)
      kubectlFilename ==
        IF ~serverVersion.nil /\ major.err = "" /\ minor.err = ""
        THEN createKubectlBinaryFilename(major.val, minor.val)
        ELSE kubectlDefaultName
  IN Join(currentDirectory(dg), kubectlFilename)

\* FilepathBuilder.ValidateFilepath: the file-status probe (os.Stat in main)
\* fails exactly for the paths that are not in the file system fs.
ValidateFilepath(fs, path) == IF path \in fs THEN "" ELSE "stat failed"

(***************************************************************************)
(* pkg/client                                                              *)
(***************************************************************************)

defaultRequestTimeout == "2s"
defaultCacheMaxAge == 86400

\* The absent (nil) *version.Info.
NoVersion == [nil |-> TRUE, Major |-> <<>>, Minor |-> <<>>, GitVersion |-> ""]

NewServerVersionClient ==
  [Delegate |-> "nil",
   requestTimeout |-> defaultRequestTimeout,
   cacheMaxAge |-> defaultCacheMaxAge]

SetRequestTimeout(c, t) == [c EXCEPT !.requestTimeout = t]

SetCacheMaxAge(c, a) == [c EXCEPT !.cacheMaxAge = a]

(***************************************************************************)
(* The inputs of one invocation                                            *)
(***************************************************************************)

Argv0 == "kubectl"
HelpFlags == <<"-h", "--help">>
TimeoutFlag == "--request-timeout=1s"
ArgWords == {"-h", "--help", "get", TimeoutFlag}

SeqsUpTo(S, n) == UNION {[1..k -> S] : k \in 0..n}

\* os.Args of the dispatcher binary: the program name and up to MaxArgs words.
MainArgvs == {<<Argv0>> \o t : t \in SeqsUpTo(ArgWords, MaxArgs)}

\* The args handed to NewDispatcher: as above, or nothing at all, or the help
\* flag alone.
DispatchArgvs == MainArgvs \cup {<<>>, <<"-h">>}

Envs == {<<>>, <<"HOME=/r", "KUBECONFIG=/k">>}

ExeDir == "/opt/bin"

\* What (dir, err) the directory getter returns, or no getter at all.
MainDirGetters ==
  {[kind |-> "getter", dir |-> ExeDir, err |-> ""],
   [kind |-> "getter", dir |-> "", err |-> "no executable"]}
\* A FilepathBuilder handed to NewDispatcher can hold any DirectoryGetter, also
\* one that returns a directory together with an error, or none at all.
DispatchDirGetters ==
  MainDirGetters
  \cup {[kind |-> "getter", dir |-> "/foo/bar", err |-> "forced error"],
        [kind |-> "nil", dir |-> "", err |-> ""]}

\* Major and minor strings a server can report.
VersionComponents ==
  {<<"1">>, <<"1", "2", "+">>, <<" ", "9", "\n">>, <<"0">>, <<"k">>, <<>>}

GitVersions == {"v1.12.3-gke.1"}

ServerVersions ==
  {[nil |-> FALSE, Major |-> ma, Minor |-> mi, GitVersion |-> g] :
     ma \in VersionComponents, mi \in VersionComponents, g \in GitVersions}

\* The version compiled into the calling kubectl (Dispatch only).
ClientVersions ==
  {NoVersion,
   [nil |-> FALSE, Major |-> <<"1">>, Minor |-> <<"1", "2">>, GitVersion |-> "v1.12.0"]}

\* The cluster as this invocation will find it: whether a discovery client
\* can be built from the flags, and what the version endpoint does.
\*   "version": answers with a version      "error": the query returns an error
\*   "empty":   the delegate returns (nil, nil)  "silent": never answers
Clusters ==
  {[transport |-> "err", response |-> "error", version |-> NoVersion]}
  \cup {[transport |-> "ok", response |-> r, version |-> NoVersion] :
          r \in {"error", "empty", "silent"}}
  \cup {[transport |-> "ok", response |-> "version", version |-> v] :
          v \in ServerVersions}

(***************************************************************************)
(* State                                                                   *)
(***************************************************************************)

VARIABLES
  entry,                  \* "main" (cmd/kubectl) or "Dispatch" (pkg/dispatcher)
  pc,                     \* position in main / Dispatch
  invArgs, invEnv,        \* argv and environment of the invocation (never change)
  osArgs,                 \* backing array of os.Args
  args, env,              \* main's copies; Dispatcher.args and Dispatcher.env
  kubeConfigFlags,        \* connection options filled in by flag parsing
  dirGetter,              \* FilepathBuilder.dirGetter
  files,                  \* paths for which the file-status probe succeeds
  cluster,                \* behaviour of the remote endpoint
  clientVersion,          \* Dispatcher.clientVersion
  svclient,               \* the ServerVersionClient
  request,                \* the version query in flight
  serverVersion, err,     \* result of svclient.ServerVersion()
  kubectlDefaultFilepath, kubectlFilepath,
  execCall,               \* the syscall.Exec call, once made
  exitCode,               \* exit status once the process has exited
  retErr,                 \* what Dispatch() returned
  queries,                \* version queries issued to the delegate
  hist                    \* the steps taken so far, oldest first

vars == <<entry, pc, invArgs, invEnv, osArgs, args, env, kubeConfigFlags,
          dirGetter, files, cluster, clientVersion, svclient, request,
          serverVersion, err, kubectlDefaultFilepath, kubectlFilepath,
          execCall, exitCode, retErr, queries, hist>>

Event(e, p, ok) == [ev |-> e, path |-> p, ok |-> ok]

NoExec == [called |-> FALSE, path |-> "", argv |-> <<>>, envv |-> <<>>, failed |-> FALSE]
\* A version query as the delegate sends it: its timeout parameter ("0" is
\* none) and its Cache-Control header ("" is none).
NoRequest == [sent |-> FALSE, timeout |-> "0", cacheControl |-> ""]

\* genericclioptions.NewConfigFlags: no request timeout ("0").
NewConfigFlags == [Timeout |-> "0", parsed |-> <<>>]

Init ==
  /\ entry \in {"main", "Dispatch"}
  /\ pc = "start"
  /\ invArgs \in (IF entry = "main" THEN MainArgvs ELSE DispatchArgvs)
  /\ invEnv \in Envs
  /\ osArgs = invArgs
  /\ args = (IF entry = "main" THEN <<>> ELSE invArgs)
  /\ env = (IF entry = "main" THEN <<>> ELSE invEnv)
  /\ kubeConfigFlags = NewConfigFlags
  /\ dirGetter \in (IF entry = "main" THEN MainDirGetters ELSE DispatchDirGetters)
  /\ cluster \in Clusters
  /\ files \in SUBSET {DefaultFilePath(dirGetter),
                       VersionedFilePath(dirGetter, cluster.version)}
  /\ clientVersion \in (IF entry = "main" THEN {NoVersion} ELSE ClientVersions)
  /\ svclient = NewServerVersionClient
  /\ request = NoRequest
  /\ serverVersion = NoVersion
  /\ err = ""
  /\ kubectlDefaultFilepath = ""
  /\ kubectlFilepath = ""
  /\ execCall = NoExec
  /\ exitCode = -1
  /\ retErr = ""
  /\ queries = 0
  /\ hist = <<>>

(***************************************************************************)
(* Steps shared by main and Dispatch                                       *)
(***************************************************************************)

\* FlagSet.Parse over the argument list: the kube config flags it fills in.
Parse(argList) ==
  [Timeout |-> IF \E k \in 1..Len(argList) : argList[k] = TimeoutFlag
               THEN "1s" ELSE "0",
   parsed |-> argList]

Log(e, p, ok) == hist' = Append(hist, Event(e, p, ok))

\* os.Exit(code), or a run-time panic (exit status 2), or main returning (0).
Exit(code) == pc' = "exited" /\ exitCode' = code

\* ServerVersionClient.ServerVersion up to the point where the query has been
\* handed to the delegate.  The discovery client is built from the kube
\* config flags alone: neither requestTimeout nor cacheMaxAge reaches it.
ServerVersionCall ==
  /\ pc = "query"
  /\ IF svclient.Delegate = "nil" /\ cluster.transport = "err"
     THEN /\ serverVersion' = NoVersion
          /\ err' = "discovery client error"
          /\ pc' = "branch"
          /\ Log("answer", "", FALSE)
          /\ UNCHANGED <<svclient, request, queries>>
     ELSE /\ svclient' = [svclient EXCEPT !.Delegate = "client"]
          /\ request' = [sent |-> TRUE, timeout |-> kubeConfigFlags.Timeout,
                          cacheControl |-> ""]
          /\ queries' = queries + 1
          /\ pc' = "await"
          /\ Log("query", "", TRUE)
          /\ UNCHANGED <<serverVersion, err>>
  /\ UNCHANGED <<entry, invArgs, invEnv, osArgs, args, env, kubeConfigFlags,
                 dirGetter, files, cluster, clientVersion,
                 kubectlDefaultFilepath, kubectlFilepath, execCall, exitCode,
                 retErr>>

\* ServerVersionReturn with a retry: a query that returned an error is issued
\* once more before the error is passed on.
ServerVersionReturnRetries ==
  /\ pc = "await"
  /\ cluster.response # "silent"
  /\ IF cluster.response = "error" /\ queries < 2
     THEN /\ queries' = queries + 1
          /\ Log("query", "", TRUE)
          /\ UNCHANGED <<serverVersion, err, pc>>
     ELSE /\ serverVersion' = (IF cluster.response = "version"
                               THEN cluster.version ELSE NoVersion)
          /\ err' = (IF cluster.response = "error"
                     THEN "version query failed" ELSE "")
          /\ pc' = "branch"
          /\ Log("answer", "", cluster.response = "version")
          /\ UNCHANGED queries
  /\ UNCHANGED <<entry, invArgs, invEnv, osArgs, args, env, kubeConfigFlags,
                 dirGetter, files, cluster, clientVersion, svclient, request,
                 kubectlDefaultFilepath, kubectlFilepath, execCall, exitCode,
                 retErr>>

\* return c.Delegate.ServerVersion(): the delegate's answer is passed on as is.
ServerVersionReturn ==
  /\ pc = "await"
  /\ cluster.response # "silent"
  /\ serverVersion' = (IF cluster.response = "version" THEN cluster.version
                       ELSE NoVersion)
  /\ err' = (IF cluster.response = "error" THEN "version query failed" ELSE "")
  /\ pc' = "branch"
  /\ Log("answer", "", cluster.response = "version")
  /\ UNCHANGED <<entry, invArgs, invEnv, osArgs, args, env, kubeConfigFlags,
                 dirGetter, files, cluster, clientVersion, svclient, request,
                 kubectlDefaultFilepath, kubectlFilepath, execCall, exitCode,
                 retErr, queries>>

\* The delegate gives up on a query that carries a timeout.
ServerVersionTimeout ==
  /\ pc = "await"
  /\ cluster.response = "silent"
  /\ request.timeout # "0"
  /\ serverVersion' = NoVersion
  /\ err' = "request timed out"
  /\ pc' = "branch"
  /\ Log("answer", "", FALSE)
  /\ UNCHANGED <<entry, invArgs, invEnv, osArgs, args, env, kubeConfigFlags,
                 dirGetter, files, cluster, clientVersion, svclient, request,
                 kubectlDefaultFilepath, kubectlFilepath, execCall, exitCode,
                 retErr, queries>>

\* syscall.Exec replaces the process image: it does not return.
ExecSucceeds ==
  /\ pc = "exec"
  /\ execCall' = [called |-> TRUE, path |-> kubectlFilepath,
                  argv |-> (IF entry = "main" THEN args ELSE CopyStrSlice(args)),
                  envv |-> (IF entry = "main" THEN env ELSE CopyStrSlice(env)),
                  failed |-> FALSE]
  /\ pc' = "replaced"
  /\ Log("exec", kubectlFilepath, TRUE)
  /\ UNCHANGED <<entry, invArgs, invEnv, osArgs, args, env, kubeConfigFlags,
                 dirGetter, files, cluster, clientVersion, svclient, request,
                 serverVersion, err, kubectlDefaultFilepath, kubectlFilepath,
                 exitCode, retErr, queries>>

(***************************************************************************)
(* cmd/kubectl: main                                                       *)
(***************************************************************************)

requestTimeout == "5s"
cacheMaxAge == 3600

\* Defensive copies of os.Args and os.Environ().
MainCopyArgs ==
  /\ entry = "main" /\ pc = "start"
  /\ args' = CopyStrSlice(osArgs)
  /\ env' = CopyStrSlice(invEnv)
  /\ pc' = "flags"
  /\ UNCHANGED <<entry, invArgs, invEnv, osArgs, kubeConfigFlags, dirGetter,
                 files, cluster, clientVersion, svclient, request,
                 serverVersion, err, kubectlDefaultFilepath, kubectlFilepath,
                 execCall, exitCode, retErr, queries, hist>>

\* initFlags when main has not copied os.Args: args is os.Args itself, so the
\* removal of the help flags shows in args.
initFlagsThroughAlias ==
  /\ entry = "main" /\ pc = "flags"
  /\ LET r1 == RemoveAllElements(osArgs, 1, Len(osArgs) - 1, "-h")
         r2 == RemoveAllElements(r1.arr, 1, r1.len, "--help")
     IN /\ osArgs' = r2.arr
        /\ args' = r2.arr
        /\ kubeConfigFlags' = Parse(SliceOf(r2.arr, 1, r2.len))
  /\ pc' = "default"
  /\ Log("config", "", TRUE)
  /\ UNCHANGED <<entry, invArgs, invEnv, env, dirGetter, files, cluster,
                 clientVersion, svclient, request, serverVersion, err,
                 kubectlDefaultFilepath, kubectlFilepath, execCall, exitCode,
                 retErr, queries>>

\* initFlags: the help flags are removed from os.Args[1:] in place (the slice
\* shares the backing array of os.Args), the rest is parsed.
initFlags ==
  /\ entry = "main" /\ pc = "flags"
  /\ LET r1 == RemoveAllElements(osArgs, 1, Len(osArgs) - 1, "-h")
         r2 == RemoveAllElements(r1.arr, 1, r1.len, "--help")
     IN /\ osArgs' = r2.arr
        /\ kubeConfigFlags' = Parse(SliceOf(r2.arr, 1, r2.len))
  /\ pc' = "default"
  /\ Log("config", "", TRUE)
  /\ UNCHANGED <<entry, invArgs, invEnv, args, env, dirGetter, files, cluster,
                 clientVersion, svclient, request, serverVersion, err,
                 kubectlDefaultFilepath, kubectlFilepath, execCall, exitCode,
                 retErr, queries>>

\* kubectlDefaultFilepath := filepathBuilder.DefaultFilePath()
MainDefaultPath ==
  /\ entry = "main" /\ pc = "default"
  /\ kubectlDefaultFilepath' = DefaultFilePath(dirGetter)
  /\ kubectlFilepath' = kubectlDefaultFilepath'
  /\ pc' = "client"
  /\ Log("build_default", kubectlDefaultFilepath', TRUE)
  /\ UNCHANGED <<entry, invArgs, invEnv, osArgs, args, env, kubeConfigFlags,
                 dirGetter, files, cluster, clientVersion, svclient, request,
                 serverVersion, err, execCall, exitCode, retErr, queries>>

MainNewClient ==
  /\ entry = "main" /\ pc = "client"
  /\ svclient' = SetRequestTimeout(NewServerVersionClient, requestTimeout)
  /\ pc' = "query"
  /\ UNCHANGED <<entry, invArgs, invEnv, osArgs, args, env, kubeConfigFlags,
                 dirGetter, files, cluster, clientVersion, request,
                 serverVersion, err, kubectlDefaultFilepath, kubectlFilepath,
                 execCall, exitCode, retErr, queries, hist>>

\* MainBranch without the assignment of the versioned path: kubectlFilepath
\* stays the default path.
MainBranchKeepsDefault ==
  /\ entry = "main" /\ pc = "branch"
  /\ IF err = ""
     THEN IF serverVersion.nil
          THEN /\ Exit(2)
               /\ UNCHANGED <<kubectlFilepath, hist>>
          ELSE /\ kubectlFilepath' = kubectlFilepath
               /\ pc' = "validate"
               /\ Log("build_versioned", kubectlFilepath', TRUE)
               /\ UNCHANGED exitCode
     ELSE /\ pc' = "validate_else"
          /\ UNCHANGED <<kubectlFilepath, exitCode, hist>>
  /\ UNCHANGED <<entry, invArgs, invEnv, osArgs, args, env, kubeConfigFlags,
                 dirGetter, files, cluster, clientVersion, svclient, request,
                 serverVersion, err, kubectlDefaultFilepath, execCall, retErr,
                 queries>>

\* if err == nil { log serverVersion.GitVersion; build the versioned path }
\* else { warn }.  Reading GitVersion through a nil pointer panics.
MainBranch ==
  /\ entry = "main" /\ pc = "branch"
  /\ IF err = ""
     THEN IF serverVersion.nil
          THEN /\ Exit(2)
               /\ UNCHANGED <<kubectlFilepath, hist>>
          ELSE /\ kubectlFilepath' = VersionedFilePath(dirGetter, serverVersion)
               /\ pc' = "validate"
               /\ Log("build_versioned", kubectlFilepath', TRUE)
               /\ UNCHANGED exitCode
     ELSE /\ pc' = "validate_else"
          /\ UNCHANGED <<kubectlFilepath, exitCode, hist>>
  /\ UNCHANGED <<entry, invArgs, invEnv, osArgs, args, env, kubeConfigFlags,
                 dirGetter, files, cluster, clientVersion, svclient, request,
                 serverVersion, err, kubectlDefaultFilepath, execCall, retErr,
                 queries>>

\* MainValidateVersioned without "kubectlFilepath = kubectlDefaultFilepath".
MainValidateVersionedKeepsPath ==
  /\ entry = "main" /\ pc = "validate"
  /\ LET e == ValidateFilepath(files, kubectlFilepath)
     IN /\ Log("validate", kubectlFilepath, e = "")
        /\ IF e # ""
           THEN /\ UNCHANGED kubectlFilepath
                /\ pc' = "validate_default"
           ELSE /\ pc' = "exec"
                /\ UNCHANGED kubectlFilepath
  /\ UNCHANGED <<entry, invArgs, invEnv, osArgs, args, env, kubeConfigFlags,
                 dirGetter, files, cluster, clientVersion, svclient, request,
                 serverVersion, err, kubectlDefaultFilepath, execCall,
                 exitCode, retErr, queries>>

\* Validate the versioned path; on failure fall back to the default path.
MainValidateVersioned ==
  /\ entry = "main" /\ pc = "validate"
  /\ LET e == ValidateFilepath(files, kubectlFilepath)
     IN /\ Log("validate", kubectlFilepath, e = "")
        /\ IF e # ""
           THEN /\ kubectlFilepath' = kubectlDefaultFilepath
                /\ pc' = "validate_default"
           ELSE /\ pc' = "exec"
                /\ UNCHANGED kubectlFilepath
  /\ UNCHANGED <<entry, invArgs, invEnv, osArgs, args, env, kubeConfigFlags,
                 dirGetter, files, cluster, clientVersion, svclient, request,
                 serverVersion, err, kubectlDefaultFilepath, execCall,
                 exitCode, retErr, queries>>

\* MainValidateDefault without os.Exit(1): a failed validation is logged only.
MainValidateDefaultNoExit ==
  /\ entry = "main" /\ pc = "validate_default"
  /\ LET e == ValidateFilepath(files, kubectlFilepath)
     IN Log("validate", kubectlFilepath, e = "")
  /\ pc' = "exec"
  /\ UNCHANGED <<entry, invArgs, invEnv, osArgs, args, env, kubeConfigFlags,
                 dirGetter, files, cluster, clientVersion, svclient, request,
                 serverVersion, err, kubectlDefaultFilepath, kubectlFilepath,
                 execCall, exitCode, retErr, queries>>

\* Validate the default path after the versioned one failed; exit 1 if bad.
MainValidateDefault ==
  /\ entry = "main" /\ pc = "validate_default"
  /\ LET e == ValidateFilepath(files, kubectlFilepath)
     IN /\ Log("validate", kubectlFilepath, e = "")
        /\ IF e # ""
           THEN Exit(1)
           ELSE pc' = "exec" /\ UNCHANGED exitCode
  /\ UNCHANGED <<entry, invArgs, invEnv, osArgs, args, env, kubeConfigFlags,
                 dirGetter, files, cluster, clientVersion, svclient, request,
                 serverVersion, err, kubectlDefaultFilepath, kubectlFilepath,
                 execCall, retErr, queries>>

\* MainValidateElse with the validation after the exec decision: the path is
\* handed to exec whatever the probe says.
MainValidateElseIgnoresResult ==
  /\ entry = "main" /\ pc = "validate_else"
  /\ LET e == ValidateFilepath(files, kubectlFilepath)
     IN Log("validate", kubectlFilepath, e = "")
  /\ pc' = "exec"
  /\ UNCHANGED <<entry, invArgs, invEnv, osArgs, args, env, kubeConfigFlags,
                 dirGetter, files, cluster, clientVersion, svclient, request,
                 serverVersion, err, kubectlDefaultFilepath, kubectlFilepath,
                 execCall, exitCode, retErr, queries>>

\* The version query failed: validate the default path; exit 1 if bad.
MainValidateElse ==
  /\ entry = "main" /\ pc = "validate_else"
  /\ LET e == ValidateFilepath(files, kubectlFilepath)
     IN /\ Log("validate", kubectlFilepath, e = "")
        /\ IF e # ""
           THEN Exit(1)
           ELSE pc' = "exec" /\ UNCHANGED exitCode
  /\ UNCHANGED <<entry, invArgs, invEnv, osArgs, args, env, kubeConfigFlags,
                 dirGetter, files, cluster, clientVersion, svclient, request,
                 serverVersion, err, kubectlDefaultFilepath, kubectlFilepath,
                 execCall, retErr, queries>>

\* syscall.Exec returns an error: main logs it and returns.
MainExecFails ==
  /\ entry = "main" /\ pc = "exec"
  /\ execCall' = [called |-> TRUE, path |-> kubectlFilepath, argv |-> args,
                  envv |-> env, failed |-> TRUE]
  /\ Log("exec", kubectlFilepath, FALSE)
  /\ Exit(0)
  /\ UNCHANGED <<entry, invArgs, invEnv, osArgs, args, env, kubeConfigFlags,
                 dirGetter, files, cluster, clientVersion, svclient, request,
                 serverVersion, err, kubectlDefaultFilepath, kubectlFilepath,
                 retErr, queries>>

(***************************************************************************)
(* pkg/dispatcher: Dispatcher.Dispatch                                     *)
(***************************************************************************)

\* versionMatch without the comparison of the minor versions.
versionMatchMajorOnly(v1, v2) ==
  IF ~v1.nil /\ ~v2.nil
  THEN LET major1 == getMajorVersion(v1)
           major2 == getMajorVersion(v2)
           minor1 == getMinorVersion(v1)
           minor2 == getMinorVersion(v2)
       IN IF major1.err # "" THEN FALSE
          ELSE IF major2.err # "" THEN FALSE
          ELSE IF minor1.err # "" THEN FALSE
          ELSE IF minor2.err # "" THEN FALSE
          ELSE major1.val = major2.val
  ELSE FALSE

versionMatch(v1, v2) ==
  IF ~v1.nil /\ ~v2.nil
  THEN LET major1 == getMajorVersion(v1)
           major2 == getMajorVersion(v2)
           minor1 == getMinorVersion(v1)
           minor2 == getMinorVersion(v2)
       IN IF major1.err # "" THEN FALSE
          ELSE IF major2.err # "" THEN FALSE
          ELSE IF minor1.err # "" THEN FALSE
          ELSE IF minor2.err # "" THEN FALSE
          ELSE major1.val = major2.val /\ minor1.val = minor2.val
  ELSE FALSE

Return(e) == pc' = "returned" /\ retErr' = e

\* InitKubeConfigFlags, then the construction of the client.  The help flags
\* are filtered out of a copy of the whole argument list; args[1:] of an empty
\* list panics.
InitKubeConfigFlags ==
  /\ entry = "Dispatch" /\ pc = "start"
  /\ LET filtered == FilterList(CopyStrSlice(args), HelpFlags).out
     IN IF Len(filtered) = 0
        THEN /\ Exit(2)
             /\ UNCHANGED <<kubeConfigFlags, svclient, hist>>
        ELSE /\ kubeConfigFlags' = Parse(Tail(filtered))
             /\ svclient' = SetCacheMaxAge(
                              SetRequestTimeout(NewServerVersionClient,
                                                requestTimeout),
                              cacheMaxAge)
             /\ pc' = "query"
             /\ Log("config", "", TRUE)
             /\ UNCHANGED exitCode
  /\ UNCHANGED <<entry, invArgs, invEnv, osArgs, args, env, dirGetter, files,
                 cluster, clientVersion, request, serverVersion, err,
                 kubectlDefaultFilepath, kubectlFilepath, execCall, retErr,
                 queries>>

\* DispatchBranch without the version-match test: the versioned path is built
\* whether or not the client and the server versions match.
DispatchBranchIgnoresMatch ==
  /\ entry = "Dispatch" /\ pc = "branch"
  /\ IF err # ""
     THEN /\ Return(err)
          /\ UNCHANGED <<kubectlFilepath, exitCode, hist>>
     ELSE IF serverVersion.nil \/ clientVersion.nil
     THEN /\ Exit(2)
          /\ UNCHANGED <<kubectlFilepath, retErr, hist>>
     ELSE /\ kubectlFilepath' = VersionedFilePath(dirGetter, serverVersion)
          /\ pc' = "validate"
          /\ Log("build_versioned", kubectlFilepath', TRUE)
          /\ UNCHANGED <<exitCode, retErr>>
  /\ UNCHANGED <<entry, invArgs, invEnv, osArgs, args, env, kubeConfigFlags,
                 dirGetter, files, cluster, clientVersion, svclient, request,
                 serverVersion, err, kubectlDefaultFilepath, execCall, queries>>

\* From the return of ServerVersion() to the construction of the path.
DispatchBranch ==
  /\ entry = "Dispatch" /\ pc = "branch"
  /\ IF err # ""
     THEN /\ Return(err)
          /\ UNCHANGED <<kubectlFilepath, exitCode, hist>>
     ELSE IF serverVersion.nil \/ clientVersion.nil
     THEN /\ Exit(2)
          /\ UNCHANGED <<kubectlFilepath, retErr, hist>>
     ELSE IF versionMatch(clientVersion, serverVersion)
     THEN /\ Return("Client/Server version match--fall through to default")
          /\ UNCHANGED <<kubectlFilepath, exitCode, hist>>
     ELSE /\ kubectlFilepath' = VersionedFilePath(dirGetter, serverVersion)
          /\ pc' = "validate"
          /\ Log("build_versioned", kubectlFilepath', TRUE)
          /\ UNCHANGED <<exitCode, retErr>>
  /\ UNCHANGED <<entry, invArgs, invEnv, osArgs, args, env, kubeConfigFlags,
                 dirGetter, files, cluster, clientVersion, svclient, request,
                 serverVersion, err, kubectlDefaultFilepath, execCall, queries>>

\* DispatchValidate that goes on to exec whatever the probe says.
DispatchValidateIgnoresResult ==
  /\ entry = "Dispatch" /\ pc = "validate"
  /\ LET e == ValidateFilepath(files, kubectlFilepath)
     IN Log("validate", kubectlFilepath, e = "")
  /\ pc' = "exec"
  /\ UNCHANGED <<entry, invArgs, invEnv, osArgs, args, env, kubeConfigFlags,
                 dirGetter, files, cluster, clientVersion, svclient, request,
                 serverVersion, err, kubectlDefaultFilepath, kubectlFilepath,
                 execCall, exitCode, retErr, queries>>

\* Ensure the versioned kubectl binary exists; return the error otherwise.
DispatchValidate ==
  /\ entry = "Dispatch" /\ pc = "validate"
  /\ LET e == ValidateFilepath(files, kubectlFilepath)
     IN /\ Log("validate", kubectlFilepath, e = "")
        /\ IF e # ""
           THEN Return(e)
           ELSE pc' = "exec" /\ UNCHANGED retErr
  /\ UNCHANGED <<entry, invArgs, invEnv, osArgs, args, env, kubeConfigFlags,
                 dirGetter, files, cluster, clientVersion, svclient, request,
                 serverVersion, err, kubectlDefaultFilepath, kubectlFilepath,
                 execCall, exitCode, queries>>

\* DispatchExecFails that drops the error of the failed exec and returns nil.
DispatchExecFailsReturnsNil ==
  /\ entry = "Dispatch" /\ pc = "exec"
  /\ execCall' = [called |-> TRUE, path |-> kubectlFilepath,
                  argv |-> CopyStrSlice(args), envv |-> CopyStrSlice(env),
                  failed |-> TRUE]
  /\ Log("exec", kubectlFilepath, FALSE)
  /\ Return("")
  /\ UNCHANGED <<entry, invArgs, invEnv, osArgs, args, env, kubeConfigFlags,
                 dirGetter, files, cluster, clientVersion, svclient, request,
                 serverVersion, err, kubectlDefaultFilepath, kubectlFilepath,
                 exitCode, queries>>

\* return syscall.Exec(...): the error of a failed exec is returned.
DispatchExecFails ==
  /\ entry = "Dispatch" /\ pc = "exec"
  /\ execCall' = [called |-> TRUE, path |-> kubectlFilepath,
                  argv |-> CopyStrSlice(args), envv |-> CopyStrSlice(env),
                  failed |-> TRUE]
  /\ Log("exec", kubectlFilepath, FALSE)
  /\ Return("exec failed")
  /\ UNCHANGED <<entry, invArgs, invEnv, osArgs, args, env, kubeConfigFlags,
                 dirGetter, files, cluster, clientVersion, svclient, request,
                 serverVersion, err, kubectlDefaultFilepath, kubectlFilepath,
                 exitCode, queries>>

(***************************************************************************)
(* Specification                                                           *)
(***************************************************************************)

Next ==
  \/ MainCopyArgs
  \/ initFlags
  \/ MainDefaultPath
  \/ MainNewClient
  \/ ServerVersionCall
  \/ ServerVersionReturn
  \/ ServerVersionTimeout
  \/ MainBranch
  \/ MainValidateVersioned
  \/ MainValidateDefault
  \/ MainValidateElse
  \/ ExecSucceeds
  \/ MainExecFails
  \/ InitKubeConfigFlags
  \/ DispatchBranch
  \/ DispatchValidate
  \/ DispatchExecFails

Spec == Init /\ [][Next]_vars

\* The process runs on one thread and is always scheduled: a step that can be
\* taken is eventually taken.
FairSpec == Spec /\ WF_vars(Next)

Terminal == pc \in {"replaced", "exited", "returned"}

TypeOK ==
  /\ entry \in {"main", "Dispatch", "builder", "client", "util"}
  /\ pc \in {"start", "flags", "default", "client", "query", "await", "branch",
             "validate", "validate_default", "validate_else", "exec",
             "replaced", "exited", "returned"}
  /\ queries \in Nat
  /\ exitCode \in {-1, 0, 1, 2}

(***************************************************************************)
(* pkg/filepath and versionMatch called on their own                       *)
(*                                                                         *)
(* One call of getMajorVersion, getMinorVersion, DefaultFilePath,          *)
(* VersionedFilePath or versionMatch per behaviour, on a builder and on    *)
(* versions drawn from the sets below; the call and its result are         *)
(* appended to hist.                                                       *)
(***************************************************************************)

\* Major and minor strings handed to the builder: empty, blank, plain numbers,
\* numbers with a suffix or padding, zeros, a leading zero, a leading
\* non-digit, and a decimal digit outside ASCII.
BuilderComponents ==
  {<<>>, <<" ">>, <<"1">>, <<"9">>, <<"1", "2">>, <<"1", "2", "+">>,
   <<" ", "1", "2", " ">>,
   <<"1", "2", ".", "3", "-", "g", "k", "e", ".", "1">>,
   <<"0">>, <<"0", "0">>, <<"0", "+">>, <<"0", "1">>, <<"k", "1">>, <<"d">>}

BuilderVersions ==
  {NoVersion}
  \cup {[nil |-> FALSE, Major |-> ma, Minor |-> mi, GitVersion |-> "SHOULD BE UNUSED"] :
          ma \in BuilderComponents, mi \in BuilderComponents}

\* The second version given to versionMatch.
MatchComponents == {<<"1">>, <<"1", "2">>, <<"1", "1">>, <<"0", "1">>, <<"k", "1">>}
MatchVersions ==
  {NoVersion}
  \cup {[nil |-> FALSE, Major |-> ma, Minor |-> mi, GitVersion |-> "v1.11.7"] :
          ma \in MatchComponents, mi \in MatchComponents}

BuilderDirGetters ==
  {[kind |-> "getter", dir |-> "/foo/bar", err |-> ""],
   [kind |-> "getter", dir |-> "/", err |-> ""],
   [kind |-> "getter", dir |-> "/foo/bar", err |-> "forced error"],
   [kind |-> "getter", dir |-> "", err |-> "no executable"],
   [kind |-> "nil", dir |-> "", err |-> ""]}

BuilderInit ==
  /\ entry = "builder"
  /\ pc = "start"
  /\ invArgs = <<>> /\ invEnv = <<>> /\ osArgs = <<>>
  /\ args = <<>> /\ env = <<>>
  /\ kubeConfigFlags = NewConfigFlags
  /\ dirGetter \in BuilderDirGetters
  /\ cluster = [transport |-> "ok", response |-> "version", version |-> NoVersion]
  /\ files = {}
  /\ serverVersion \in BuilderVersions
  /\ clientVersion \in MatchVersions
  /\ svclient = NewServerVersionClient
  /\ request = NoRequest
  /\ err = ""
  /\ kubectlDefaultFilepath = ""
  /\ kubectlFilepath = ""
  /\ execCall = NoExec
  /\ exitCode = -1
  /\ retErr = ""
  /\ queries = 0
  /\ hist = <<>>

\* The record of one call: the function, what it returned and its error.
Called(fn, val, e) == [ev |-> fn, val |-> val, err |-> e]

BuilderGetMajorVersion ==
  /\ entry = "builder" /\ pc = "start"
  /\ LET r == getMajorVersion(serverVersion)
     IN hist' = Append(hist, Called("getMajorVersion", r.val, r.err))
  /\ pc' = "returned"
  /\ UNCHANGED <<entry, invArgs, invEnv, osArgs, args, env, kubeConfigFlags,
                 dirGetter, files, cluster, clientVersion, svclient, request,
                 serverVersion, err, kubectlDefaultFilepath, kubectlFilepath,
                 execCall, exitCode, retErr, queries>>

BuilderGetMinorVersion ==
  /\ entry = "builder" /\ pc = "start"
  /\ LET r == getMinorVersion(serverVersion)
     IN hist' = Append(hist, Called("getMinorVersion", r.val, r.err))
  /\ pc' = "returned"
  /\ UNCHANGED <<entry, invArgs, invEnv, osArgs, args, env, kubeConfigFlags,
                 dirGetter, files, cluster, clientVersion, svclient, request,
                 serverVersion, err, kubectlDefaultFilepath, kubectlFilepath,
                 execCall, exitCode, retErr, queries>>

BuilderDefaultFilePath ==
  /\ entry = "builder" /\ pc = "start"
  /\ kubectlDefaultFilepath' = DefaultFilePath(dirGetter)
  /\ hist' = Append(hist, Called("DefaultFilePath", kubectlDefaultFilepath', ""))
  /\ pc' = "returned"
  /\ UNCHANGED <<entry, invArgs, invEnv, osArgs, args, env, kubeConfigFlags,
                 dirGetter, files, cluster, clientVersion, svclient, request,
                 serverVersion, err, kubectlFilepath, execCall, exitCode,
                 retErr, queries>>

BuilderVersionedFilePath ==
  /\ entry = "builder" /\ pc = "start"
  /\ kubectlFilepath' = VersionedFilePath(dirGetter, serverVersion)
  /\ hist' = Append(hist, Called("VersionedFilePath", kubectlFilepath', ""))
  /\ pc' = "returned"
  /\ UNCHANGED <<entry, invArgs, invEnv, osArgs, args, env, kubeConfigFlags,
                 dirGetter, files, cluster, clientVersion, svclient, request,
                 serverVersion, err, kubectlDefaultFilepath, execCall,
                 exitCode, retErr, queries>>

\* versionMatch(clientVersion, serverVersion), as Dispatch calls it.
BuilderVersionMatch ==
  /\ entry = "builder" /\ pc = "start"
  /\ hist' = Append(hist, Called("versionMatch",
                                 versionMatch(clientVersion, serverVersion), ""))
  /\ pc' = "returned"
  /\ UNCHANGED <<entry, invArgs, invEnv, osArgs, args, env, kubeConfigFlags,
                 dirGetter, files, cluster, clientVersion, svclient, request,
                 serverVersion, err, kubectlDefaultFilepath, kubectlFilepath,
                 execCall, exitCode, retErr, queries>>

BuilderNext ==
  \/ BuilderGetMajorVersion
  \/ BuilderGetMinorVersion
  \/ BuilderDefaultFilePath
  \/ BuilderVersionedFilePath
  \/ BuilderVersionMatch

BuilderSpec == BuilderInit /\ [][BuilderNext]_vars

(***************************************************************************)
(* pkg/client: a ServerVersionClient used on its own                       *)
(*                                                                         *)
(* A client built by NewServerVersionClient on which SetRequestTimeout,    *)
(* SetCacheMaxAge and ServerVersion are called in any order.  hist records *)
(* each setter call, and what each ServerVersion() call does: "call", then *)
(* "discovery" if it builds the discovery client, "query" if it asks the   *)
(* delegate, and "answer" with what it returns.                            *)
(***************************************************************************)

\* Largest number of method calls on one client.
MaxCalls == 3

\* Strings given to SetRequestTimeout; "foobar" is not a duration.
RequestTimeouts == {"160ms", "5s", "foobar"}
CacheMaxAges == {3600, 44000}

\* The endpoint answers every query of a behaviour in the same way.
ClientClusters == {c \in Clusters : c.response # "silent"}

ClientInit ==
  /\ entry = "client"
  /\ pc = "start"
  /\ invArgs = <<>> /\ invEnv = <<>> /\ osArgs = <<>>
  /\ args = <<>> /\ env = <<>>
  /\ kubeConfigFlags \in {NewConfigFlags, Parse(<<TimeoutFlag>>)}
  /\ dirGetter = [kind |-> "nil", dir |-> "", err |-> ""]
  /\ cluster \in ClientClusters
  /\ files = {}
  /\ serverVersion = NoVersion
  /\ clientVersion = NoVersion
  /\ svclient = NewServerVersionClient
  /\ request = NoRequest
  /\ err = ""
  /\ kubectlDefaultFilepath = ""
  /\ kubectlFilepath = ""
  /\ execCall = NoExec
  /\ exitCode = -1
  /\ retErr = ""
  /\ queries = 0
  /\ hist = <<>>

Step(e) == [ev |-> e]
Discovery(ok) == [ev |-> "discovery", ok |-> ok]
Answer(v, e) == [ev |-> "answer", version |-> v, err |-> e]

\* A call of a setter: its argument and the error it reported ("" is none).
Set(fn, arg, e) == [ev |-> fn, arg |-> arg, err |-> e]

\* The ServerVersion() calls made so far, and the calls of any method.
Calls == Cardinality({k \in 1..Len(hist) : hist[k].ev = "call"})
ApiCalls ==
  Cardinality({k \in 1..Len(hist) :
                 hist[k].ev \in {"call", "SetRequestTimeout", "SetCacheMaxAge"}})

\* SetRequestTimeout stores its argument; the method has no result.
ClientSetRequestTimeout ==
  /\ entry = "client"
  /\ ApiCalls < MaxCalls
  /\ \E t \in RequestTimeouts :
       /\ svclient' = SetRequestTimeout(svclient, t)
       /\ hist' = Append(hist, Set("SetRequestTimeout", t, ""))
  /\ UNCHANGED <<entry, pc, invArgs, invEnv, osArgs, args, env, kubeConfigFlags,
                 dirGetter, files, cluster, clientVersion, request,
                 serverVersion, err, kubectlDefaultFilepath, kubectlFilepath,
                 execCall, exitCode, retErr, queries>>

ClientSetCacheMaxAge ==
  /\ entry = "client"
  /\ ApiCalls < MaxCalls
  /\ \E a \in CacheMaxAges :
       /\ svclient' = SetCacheMaxAge(svclient, a)
       /\ hist' = Append(hist, Set("SetCacheMaxAge", a, ""))
  /\ UNCHANGED <<entry, pc, invArgs, invEnv, osArgs, args, env, kubeConfigFlags,
                 dirGetter, files, cluster, clientVersion, request,
                 serverVersion, err, kubectlDefaultFilepath, kubectlFilepath,
                 execCall, exitCode, retErr, queries>>

\* ClientServerVersion that asks Flags.ToDiscoveryClient() for a discovery
\* client in every call, whether or not Delegate is set.
ClientServerVersionRebuilds ==
  /\ entry = "client"
  /\ ApiCalls < MaxCalls
  /\ IF cluster.transport = "err"
     THEN /\ serverVersion' = NoVersion
          /\ err' = "discovery client error"
          /\ hist' = hist \o <<Step("call"), Discovery(FALSE),
                               Answer(NoVersion, err')>>
          /\ UNCHANGED <<svclient, request, queries>>
     ELSE /\ svclient' = [svclient EXCEPT !.Delegate = "client"]
          /\ request' = [sent |-> TRUE, timeout |-> kubeConfigFlags.Timeout,
                          cacheControl |-> ""]
          /\ queries' = queries + 1
          /\ serverVersion' = (IF cluster.response = "version"
                               THEN cluster.version ELSE NoVersion)
          /\ err' = (IF cluster.response = "error"
                     THEN "version query failed" ELSE "")
          /\ hist' = hist \o <<Step("call"), Discovery(TRUE), Step("query"),
                               Answer(serverVersion', err')>>
  /\ UNCHANGED <<entry, pc, invArgs, invEnv, osArgs, args, env, kubeConfigFlags,
                 dirGetter, files, cluster, clientVersion,
                 kubectlDefaultFilepath, kubectlFilepath, execCall, exitCode,
                 retErr>>

\* One whole ServerVersion() call: build the discovery client from the flags
\* if Delegate is nil (returning the error if that fails), then return what
\* Delegate.ServerVersion() returns.  Nothing is cached, and neither
\* requestTimeout nor cacheMaxAge is read.
ClientServerVersion ==
  /\ entry = "client"
  /\ ApiCalls < MaxCalls
  /\ IF svclient.Delegate = "nil" /\ cluster.transport = "err"
     THEN /\ serverVersion' = NoVersion
          /\ err' = "discovery client error"
          /\ hist' = hist \o <<Step("call"), Discovery(FALSE),
                               Answer(NoVersion, err')>>
          /\ UNCHANGED <<svclient, request, queries>>
     ELSE /\ svclient' = [svclient EXCEPT !.Delegate = "client"]
          /\ request' = [sent |-> TRUE, timeout |-> kubeConfigFlags.Timeout,
                          cacheControl |-> ""]
          /\ queries' = queries + 1
          /\ serverVersion' = (IF cluster.response = "version"
                               THEN cluster.version ELSE NoVersion)
          /\ err' = (IF cluster.response = "error"
                     THEN "version query failed" ELSE "")
          /\ hist' = hist
                     \o <<Step("call")>>
                     \o (IF svclient.Delegate = "nil"
                         THEN <<Discovery(TRUE)>> ELSE <<>>)
                     \o <<Step("query"), Answer(serverVersion', err')>>
  /\ UNCHANGED <<entry, pc, invArgs, invEnv, osArgs, args, env, kubeConfigFlags,
                 dirGetter, files, cluster, clientVersion,
                 kubectlDefaultFilepath, kubectlFilepath, execCall, exitCode,
                 retErr>>

ClientNext ==
  \/ ClientSetRequestTimeout
  \/ ClientSetCacheMaxAge
  \/ ClientServerVersion

ClientSpec == ClientInit /\ [][ClientNext]_vars

(***************************************************************************)
(* pkg/util called on its own                                              *)
(*                                                                         *)
(* One call of RemoveAllElements or FilterList per behaviour.  invArgs is  *)
(* the list as the caller built it, osArgs the caller's list (its backing  *)
(* array) as the call leaves it, args the returned slice.                  *)
(***************************************************************************)

\* Longest list handed to pkg/util.
MaxLen == 4

UtilWords == {"-h", "--help", "foo"}
UtilLists == SeqsUpTo(UtilWords, MaxLen)

\* Lists of strings to filter out.
RemoveLists == {<<>>, <<"-h">>, HelpFlags, <<"foo", "-h">>}

UtilInit ==
  /\ entry = "util"
  /\ pc = "start"
  /\ invArgs \in UtilLists
  /\ osArgs = invArgs
  /\ invEnv = <<>> /\ args = <<>> /\ env = <<>>
  /\ kubeConfigFlags = NewConfigFlags
  /\ dirGetter = [kind |-> "nil", dir |-> "", err |-> ""]
  /\ cluster = [transport |-> "ok", response |-> "version", version |-> NoVersion]
  /\ files = {}
  /\ serverVersion = NoVersion
  /\ clientVersion = NoVersion
  /\ svclient = NewServerVersionClient
  /\ request = NoRequest
  /\ err = ""
  /\ kubectlDefaultFilepath = ""
  /\ kubectlFilepath = ""
  /\ execCall = NoExec
  /\ exitCode = -1
  /\ retErr = ""
  /\ queries = 0
  /\ hist = <<>>

\* The record of one pkg/util call: the function, what is removed, and
\* whether the call panicked.
UtilCalled(fn, what, panicked) == [ev |-> fn, what |-> what, panic |-> panicked]

\* args = RemoveAllElements(osArgs, r)
UtilRemoveAllElements ==
  /\ entry = "util" /\ pc = "start"
  /\ \E r \in UtilWords :
       LET res == RemoveAllElements(osArgs, 0, Len(osArgs), r)
       IN /\ osArgs' = res.arr
          /\ args' = SliceOf(res.arr, 0, res.len)
          /\ hist' = Append(hist, UtilCalled("RemoveAllElements", r, res.panic))
  /\ pc' = "returned"
  /\ UNCHANGED <<entry, invArgs, invEnv, env, kubeConfigFlags, dirGetter,
                 files, cluster, clientVersion, svclient, request,
                 serverVersion, err, kubectlDefaultFilepath, kubectlFilepath,
                 execCall, exitCode, retErr, queries>>

\* args = FilterList(osArgs, rl)
UtilFilterList ==
  /\ entry = "util" /\ pc = "start"
  /\ \E rl \in RemoveLists :
       LET res == FilterList(osArgs, rl)
       IN /\ osArgs' = res.l
          /\ args' = res.out
          /\ hist' = Append(hist, UtilCalled("FilterList", rl, res.panic))
  /\ pc' = "returned"
  /\ UNCHANGED <<entry, invArgs, invEnv, env, kubeConfigFlags, dirGetter,
                 files, cluster, clientVersion, svclient, request,
                 serverVersion, err, kubectlDefaultFilepath, kubectlFilepath,
                 execCall, exitCode, retErr, queries>>

UtilNext ==
  \/ UtilRemoveAllElements
  \/ UtilFilterList

UtilSpec == UtilInit /\ [][UtilNext]_vars

(***************************************************************************)
(* main and Dispatch against servers that differ in their GitVersion       *)
(*                                                                         *)
(* The steps are those of Spec; the server reports each major and minor    *)
(* with each of several GitVersion strings, the empty one included.        *)
(***************************************************************************)

GitVersionsOfRun == {"v1.12.3-gke.1", "SHOULD BE UNUSED", ""}

GitArgvs == {<<Argv0, "get">>, <<Argv0, "get", TimeoutFlag>>}

GitClusters ==
  {c \in Clusters : c.response # "version"}
  \cup {[transport |-> "ok", response |-> "version",
         version |-> [nil |-> FALSE, Major |-> ma, Minor |-> mi, GitVersion |-> g]] :
          ma \in VersionComponents, mi \in VersionComponents,
          g \in GitVersionsOfRun}

GitInit ==
  /\ entry \in {"main", "Dispatch"}
  /\ pc = "start"
  /\ invArgs \in (IF entry = "main" THEN GitArgvs ELSE GitArgvs \cup {<<>>})
  /\ invEnv = <<>>
  /\ osArgs = invArgs
  /\ args = (IF entry = "main" THEN <<>> ELSE invArgs)
  /\ env = (IF entry = "main" THEN <<>> ELSE invEnv)
  /\ kubeConfigFlags = NewConfigFlags
  /\ dirGetter \in (IF entry = "main" THEN MainDirGetters ELSE DispatchDirGetters)
  /\ cluster \in GitClusters
  /\ files \in SUBSET {DefaultFilePath(dirGetter),
                       VersionedFilePath(dirGetter, cluster.version)}
  /\ clientVersion \in (IF entry = "main" THEN {NoVersion} ELSE ClientVersions)
  /\ svclient = NewServerVersionClient
  /\ request = NoRequest
  /\ serverVersion = NoVersion
  /\ err = ""
  /\ kubectlDefaultFilepath = ""
  /\ kubectlFilepath = ""
  /\ execCall = NoExec
  /\ exitCode = -1
  /\ retErr = ""
  /\ queries = 0
  /\ hist = <<>>

GitSpec == GitInit /\ [][Next]_vars

(***************************************************************************)
(* Vocabulary of the properties                                            *)
(***************************************************************************)

\* ServerVersion() has returned to its caller.
Answered == \E k \in 1..Len(hist) : hist[k].ev = "answer"

\* The query did not yield a version: an error, or no version at all.
QueryFailed == Answered /\ (err # "" \/ serverVersion.nil)

QuerySucceeded == Answered /\ err = "" /\ ~serverVersion.nil

DefaultPath == Join(currentDirectory(dirGetter), kubectlDefaultName)

\* The server version has a major and a minor that both normalize.
Normalizable ==
  /\ ~serverVersion.nil
  /\ getMajorVersion(serverVersion).err = ""
  /\ getMinorVersion(serverVersion).err = ""

\* <dir>/kubectl.M.N for the normalized major M and minor N.
VersionedPath ==
  Join(currentDirectory(dirGetter),
       "kubectl." \o Str(getMajorVersion(serverVersion).val)
                  \o "." \o Str(getMinorVersion(serverVersion).val))

\* hist[k] is main's validation of the path built from the server version.
IsVersionedValidation(k) ==
  /\ k > 1 /\ k <= Len(hist)
  /\ hist[k].ev = "validate"
  /\ hist[k - 1].ev = "build_versioned"

ExecAttempted == execCall.called

(***************************************************************************)
(* Properties                                                              *)
(***************************************************************************)

\* C1: in main, when the version query has failed (no discovery client, a
\* query error, or no version in the answer) and the default path validates,
\* the run ends only after syscall.Exec has been called with the default path.
C1_QueryFailureFallsBack ==
  (entry = "main" /\ Terminal /\ QueryFailed /\ DefaultPath \in files)
    => (ExecAttempted /\ execCall.path = DefaultPath)

C3_OnlyDefaultValidationIsFatal ==
  (entry = "main" /\ pc = "exited" /\ exitCode # 0 /\ ~ExecAttempted)
    => /\ hist # <<>>
       /\ hist[Len(hist)] = Event("validate", DefaultPath, FALSE)

\* C4: a run in which syscall.Exec returned an error does not exit with
\* status 0.
C4_ExecFailureIsFatal ==
  (pc = "exited" /\ execCall.called /\ execCall.failed) => exitCode # 0

\* C5: the argument vector and the environment handed to syscall.Exec are the
\* ones of the invocation, element for element.
C5_ArgsAndEnvUnchanged ==
  execCall.called => (execCall.argv = invArgs /\ execCall.envv = invEnv)

\* a run of main with a help flag, whose removal has changed os.Args itself
C5_Witness ==
  /\ entry = "main"
  /\ execCall.called
  /\ \E k \in 2..Len(invArgs) : invArgs[k] \in {"-h", "--help"}
  /\ osArgs # invArgs
  /\ invEnv # <<>>

\* C6: in main, when the validation of the versioned path and then the
\* validation of the default path have both failed, the process has exited
\* with a non-zero status and syscall.Exec was never called.
C6_BothInvalidIsFatal ==
  entry = "main" =>
    \A k \in 1..Len(hist) :
      (IsVersionedValidation(k) /\ ~hist[k].ok /\ Len(hist) > k
         /\ hist[k + 1].ev = "validate" /\ ~hist[k + 1].ok)
        => (pc = "exited" /\ exitCode # 0 /\ ~ExecAttempted)

C6_Witness ==
  /\ entry = "main"
  /\ \E k \in 1..Len(hist) :
       /\ IsVersionedValidation(k) /\ ~hist[k].ok
       /\ hist[k].path # DefaultPath
       /\ Len(hist) = k + 1
       /\ hist[k + 1].ev = "validate" /\ ~hist[k + 1].ok
  /\ pc = "exited"

\* C7: in main, when the query has succeeded with a normalizable major M and
\* minor N and <dir>/kubectl.M.N validates, syscall.Exec is called with that
\* path and no other, whether or not the default binary exists.
C7_VersionedBinaryIsChosen ==
  (entry = "main" /\ QuerySucceeded /\ Normalizable /\ VersionedPath \in files)
    => /\ ExecAttempted => execCall.path = VersionedPath
       /\ Terminal => ExecAttempted

C7_Witness ==
  /\ entry = "main" /\ QuerySucceeded /\ Normalizable
  /\ VersionedPath \in files
  /\ DefaultPath \notin files
  /\ serverVersion.Minor = <<"1", "2", "+">>
  /\ execCall.called /\ execCall.path = VersionedPath

\* C8: every invocation eventually reaches a terminal state (process image
\* replaced, process exited, or Dispatch returned), also when the remote
\* endpoint never answers.
C8_EventuallyTerminal == <>Terminal

\* C9: at most one version query is issued in an invocation.
C9_AtMostOneQuery ==
  /\ queries <= 1
  /\ Cardinality({k \in 1..Len(hist) : hist[k].ev = "query"}) <= 1

\* a run that has ended after a failed query
C9_Witness == Terminal /\ queries = 1 /\ err # ""

\* C10 as stated: configuration, query, path construction, validation and
\* exec happen strictly in this order; in particular no path is constructed
\* before the version query has completed.
C10_StrictOrder ==
  \A k \in 1..Len(hist) :
    /\ hist[k].ev \in {"query", "answer"} =>
         \E c \in 1..(k - 1) : hist[c].ev = "config"
    /\ hist[k].ev \in {"build_default", "build_versioned"} =>
         \E a \in 1..(k - 1) : hist[a].ev = "answer"
    /\ hist[k].ev = "validate" =>
         \E b \in 1..(k - 1) :
           hist[b].ev \in {"build_default", "build_versioned"}
           /\ hist[b].path = hist[k].path
    /\ hist[k].ev = "exec" =>
         \E v \in 1..(k - 1) : hist[v].ev = "validate"

\* C10 amended: configuration resolution precedes the query; the versioned
\* path is constructed only after the query has completed (main constructs
\* the default path before the query); a path is validated only after it was
\* constructed and after the query has completed; exec directly follows a
\* successful validation of the path it is given.
C10_Order ==
  \A k \in 1..Len(hist) :
    /\ hist[k].ev \in {"query", "answer", "build_default"} =>
         \E c \in 1..(k - 1) : hist[c].ev = "config"
    /\ hist[k].ev \in {"build_versioned", "validate"} =>
         \E a \in 1..(k - 1) : hist[a].ev = "answer"
    /\ hist[k].ev = "validate" =>
         \E b \in 1..(k - 1) :
           hist[b].ev \in {"build_default", "build_versioned"}
           /\ hist[b].path = hist[k].path
    /\ hist[k].ev = "exec" =>
         /\ k > 1
         /\ hist[k - 1] = Event("validate", hist[k].path, TRUE)

C10_Witness ==
  /\ entry = "main"
  /\ Len(hist) >= 7
  /\ hist[2].ev = "build_default"
  /\ hist[5].ev = "build_versioned"
  /\ hist[5].path # hist[2].path
  /\ hist[Len(hist)].ev = "exec"

(***************************************************************************)
(* Version components, read independently of the builder                   *)
(***************************************************************************)

DigitChars == <<"0", "1", "2", "3", "4", "5", "6", "7", "8", "9">>

\* The decimal digits: the ASCII ones and "d", a digit three outside ASCII.
DecimalDigits == {DigitChars[n] : n \in 1..10} \cup {"d"}

ValueOfDigit(c) ==
  IF c = "d" THEN 3 ELSE (CHOOSE n \in 1..10 : DigitChars[n] = c) - 1

\* s without its leading and trailing white space.
Trimmed(s) ==
  LET inked == {k \in 1..Len(s) : s[k] \notin WhiteSpace}
  IN IF inked = {} THEN <<>>
     ELSE SubSeq(s, CHOOSE a \in inked : \A b \in inked : a <= b,
                    CHOOSE a \in inked : \A b \in inked : a >= b)

\* The run of decimal digits the trimmed component starts with.
DigitRun(s) ==
  LET t == Trimmed(s)
      n == Cardinality({k \in 1..Len(t) : \A i \in 1..k : t[i] \in DecimalDigits})
  IN SubSeq(t, 1, n)

\* The number a run of digits denotes (0 for the empty run).
RECURSIVE RunValue(_)
RunValue(r) ==
  IF r = <<>> THEN 0
  ELSE 10 * RunValue(SubSeq(r, 1, Len(r) - 1)) + ValueOfDigit(r[Len(r)])

\* The decimal numeral of a natural number.
RECURSIVE Decimal(_)
Decimal(n) ==
  IF n < 10 THEN <<DigitChars[n + 1]>>
  ELSE Decimal(n \div 10) \o <<DigitChars[(n % 10) + 1]>>

\* hist[k] records a call of getMajorVersion or getMinorVersion on a version
\* that is present.
IsNormalization(k) ==
  /\ hist[k].ev \in {"getMajorVersion", "getMinorVersion"}
  /\ ~serverVersion.nil

\* The component that call normalized.
Component(k) ==
  IF hist[k].ev = "getMajorVersion" THEN serverVersion.Major
  ELSE serverVersion.Minor

\* C11: a component that, once trimmed, starts with a run of decimal digits of
\* positive value normalizes without error to the number that run denotes,
\* whatever follows the run.
C11_NormalizesToLeadingInteger ==
  \A k \in 1..Len(hist) :
    (IsNormalization(k) /\ RunValue(DigitRun(Component(k))) > 0)
      => /\ hist[k].err = ""
         /\ hist[k].val = Decimal(RunValue(DigitRun(Component(k))))

\* C12: a component that is empty or blank, or starts with a non-digit once
\* trimmed, or whose leading run of digits denotes zero, normalizes to an
\* error and to no value.
C12_NormalizationFails ==
  \A k \in 1..Len(hist) :
    (IsNormalization(k)
       /\ \/ Trimmed(Component(k)) = <<>>
          \/ DigitRun(Component(k)) = <<>>
          \/ RunValue(DigitRun(Component(k))) = 0)
      => /\ hist[k].err # ""
         /\ hist[k].val = <<>>

\* getMinorVersion has rejected "00"
C12_Witness ==
  /\ entry = "builder" /\ pc = "returned"
  /\ hist[1].ev = "getMinorVersion"
  /\ serverVersion.Minor = <<"0", "0">>
  /\ hist[1].err # ""

\* The server version has a major and a minor that getMajorVersion and
\* getMinorVersion both accept.
BothNormalize(v) ==
  /\ ~v.nil
  /\ getMajorVersion(v).err = ""
  /\ getMinorVersion(v).err = ""

DirectoryFails == dirGetter.kind = "nil" \/ dirGetter.err # ""

\* The file name VersionedFilePath chooses for the server version.
VersionedName ==
  IF BothNormalize(serverVersion)
  THEN "kubectl." \o Str(getMajorVersion(serverVersion).val)
                  \o "." \o Str(getMinorVersion(serverVersion).val)
  ELSE kubectlDefaultName

C17_LaterCallsAreCached ==
  \A k \in 1..Len(hist) : \A j \in (k + 1)..Len(hist) :
    (hist[k].ev = "answer" /\ hist[k].err = "" /\ ~hist[k].version.nil)
      => /\ hist[j].ev # "query"
         /\ hist[j].ev = "answer" => hist[j] = hist[k]

C19_NoVersionIsAnError ==
  \A k \in 1..Len(hist) :
    (hist[k].ev = "answer" /\ hist[k].version.nil) => hist[k].err # ""

\* C20: every query sent by ServerVersion() has the client's current
\* requestTimeout as its timeout parameter and "max-age=<cacheMaxAge>" as its
\* Cache-Control header.
C20_QueryCarriesSettings ==
  [][queries' = queries + 1 =>
       /\ request'.timeout = svclient'.requestTimeout
       /\ request'.cacheControl =
            "max-age=" \o Str(Decimal(svclient'.cacheMaxAge))]_vars

\* The elements of l that are not in the set drop, in the order and number in
\* which l has them.
RECURSIVE Keep(_, _)
Keep(l, drop) ==
  IF l = <<>> THEN <<>>
  ELSE IF Head(l) \in drop THEN Keep(Tail(l), drop)
  ELSE <<Head(l)>> \o Keep(Tail(l), drop)

\* C26: FilterList(l, rl) returns the elements of l that equal no element of
\* rl, in their order and with their multiplicity, and leaves l as it was.
C26_FilterList ==
  (entry = "util" /\ hist # <<>> /\ hist[1].ev = "FilterList") =>
    /\ ~hist[1].panic
    /\ args = Keep(invArgs, {hist[1].what[k] : k \in 1..Len(hist[1].what)})
    /\ osArgs = invArgs

\* ["-h", "foo", "-h", "-h"] filtered by the help flags: the result is ["foo"]
C26_Witness ==
  /\ entry = "util" /\ pc = "returned"
  /\ hist[1].ev = "FilterList" /\ hist[1].what = HelpFlags
  /\ invArgs = <<"-h", "foo", "-h", "-h">>
  /\ args = <<"foo">>

\* C30: RemoveAllElements(s, r) reads s[j] only with 0 <= j < len(s), so it
\* does not panic, and returns the elements of s other than r in their order.
C30_RemoveAllElements ==
  (entry = "util" /\ hist # <<>> /\ hist[1].ev = "RemoveAllElements") =>
    /\ ~hist[1].panic
    /\ args = Keep(invArgs, {hist[1].what})

\* leading, consecutive and trailing matches: ["-h", "foo", "-h", "-h"]
\* without "-h", removed inside the caller's backing array
C30_Witness ==
  /\ entry = "util" /\ pc = "returned"
  /\ hist[1].ev = "RemoveAllElements" /\ hist[1].what = "-h"
  /\ invArgs = <<"-h", "foo", "-h", "-h">>
  /\ args = <<"foo">>
  /\ osArgs # invArgs

\* The strings time.ParseDuration accepts, among those used here.
Durations == {"1s", "2s", "5s", "160ms"}

\* The SetRequestTimeout calls recorded in hist.
TimeoutSets == {k \in 1..Len(hist) : hist[k].ev = "SetRequestTimeout"}

\* C21: GetRequestTimeout returns the default on a new client; a
\* SetRequestTimeout call with a duration reports no error and, until the next
\* such call, GetRequestTimeout returns that duration; a SetRequestTimeout
\* call with a string that is not a duration reports an error.
C21_RequestTimeout ==
  entry = "client" =>
    /\ TimeoutSets = {} => svclient.requestTimeout = defaultRequestTimeout
    /\ \A k \in TimeoutSets :
         IF hist[k].arg \in Durations
         THEN /\ hist[k].err = ""
              /\ (\A j \in TimeoutSets : j <= k) =>
                   svclient.requestTimeout = hist[k].arg
         ELSE hist[k].err # ""

\* The directory part of the paths the builder returns: nothing when the
\* directory cannot be resolved, else the directory and one separator.
DirPrefix ==
  IF DirectoryFails THEN ""
  ELSE IF dirGetter.dir = "/" THEN "/"
  ELSE dirGetter.dir \o "/"

\* C22: every versioned path the dispatcher builds lies in the
\* "clibin" subdirectory of the directory of the dispatcher executable.
C22_InClibin ==
  \A k \in 1..Len(hist) :
    (hist[k].ev = "build_versioned" /\ BothNormalize(serverVersion)
       /\ ~DirectoryFails)
      => hist[k].path = dirGetter.dir \o "/clibin/" \o VersionedName

\* r is a non-empty string of ASCII digits that denotes a positive number.
IsPositiveNumeral(r) ==
  /\ r # <<>>
  /\ \A i \in 1..Len(r) : r[i] \in {DigitChars[n] : n \in 1..10}
  /\ RunValue(r) > 0

C24_ReturnsAnError ==
  (entry = "Dispatch" /\ pc = "returned") =>
    /\ retErr # ""
    /\ \/ retErr = err /\ ~execCall.called
       \/ retErr = "Client/Server version match--fall through to default"
            /\ ~execCall.called
       \/ retErr = ValidateFilepath(files, kubectlFilepath) /\ ~execCall.called
       \/ retErr = "exec failed" /\ execCall.called /\ execCall.failed

\* the exec of a validated binary failed and Dispatch returned its error
C24_Witness ==
  /\ entry = "Dispatch" /\ pc = "returned"
  /\ execCall.called /\ execCall.failed
  /\ retErr = "exec failed"

\* The version query has been answered and Dispatch has acted on the answer.
Decided ==
  /\ entry = "Dispatch"
  /\ pc \notin {"start", "query", "await", "branch"}
  /\ \E k \in 1..Len(hist) : hist[k].ev = "answer"

\* The client and the server versions are both present, both normalize, and
\* their majors and minors start with the same digits.
VersionsMatch ==
  /\ BothNormalize(clientVersion)
  /\ BothNormalize(serverVersion)
  /\ DigitRun(clientVersion.Major) = DigitRun(serverVersion.Major)
  /\ DigitRun(clientVersion.Minor) = DigitRun(serverVersion.Minor)

\* C27: when the query succeeds and the client and server versions match,
\* Dispatch returns an error without building or validating a versioned path
\* and without calling exec; exec is reached only when they do not match.
C27_MatchFallsThrough ==
  /\ (Decided /\ err = "" /\ VersionsMatch) =>
       /\ pc = "returned" /\ retErr # ""
       /\ ~execCall.called
       /\ kubectlFilepath = ""
       /\ \A k \in 1..Len(hist) :
            hist[k].ev \notin {"build_versioned", "validate", "exec"}
  /\ (entry = "Dispatch" /\ (pc = "exec" \/ execCall.called)) =>
       (err = "" /\ ~VersionsMatch)

\* client 1.12 against server 1.12+: Dispatch has returned the match message
C27_Witness ==
  /\ Decided /\ err = "" /\ VersionsMatch
  /\ serverVersion.Minor = <<"1", "2", "+">>
  /\ pc = "returned"
  /\ retErr = "Client/Server version match--fall through to default"

\* The validations recorded so far.
Validations == {k \in 1..Len(hist) : hist[k].ev = "validate"}

\* C29: the path handed to exec is the path of the most recent validation,
\* and that validation succeeded.
C29_ExecOfValidatedPath ==
  (pc = "exec" \/ execCall.called) =>
    /\ Validations # {}
    /\ LET last == CHOOSE k \in Validations : \A j \in Validations : j <= k
       IN /\ hist[last].ok
          /\ hist[last].path = kubectlFilepath
          /\ hist[last].path \in files
          /\ execCall.called => execCall.path = hist[last].path

\* Dispatch has replaced the process with the binary it validated last
C29_Witness ==
  /\ entry = "Dispatch" /\ pc = "replaced"
  /\ execCall.called /\ ~execCall.failed
  /\ execCall.path = "/opt/bin/kubectl.1.9"
  /\ hist[Len(hist) - 1] = Event("validate", "/opt/bin/kubectl.1.9", TRUE)

\* C25: for every argument vector, the empty one and one made of help flags
\* included, Dispatch gets past the configuration step without a panic or an
\* exit: it builds the connection options and goes on to the version query.
C25_ConfigurationAlwaysSucceeds ==
  (entry = "Dispatch" /\ pc # "start") =>
    /\ \E k \in 1..Len(hist) : hist[k].ev = "config"
    /\ (pc = "exited" => \E k \in 1..Len(hist) : hist[k].ev = "query")

\* The file name for major and minor alone: kubectl.M.N for their leading
\* digits when both denote a positive number, kubectl.default otherwise.
NameOf(major, minor) ==
  IF IsPositiveNumeral(DigitRun(major)) /\ IsPositiveNumeral(DigitRun(minor))
  THEN "kubectl." \o Str(DigitRun(major)) \o "." \o Str(DigitRun(minor))
  ELSE kubectlDefaultName

\* Whether two (major, minor) pairs denote the same version.
SameMajorMinor(ma1, mi1, ma2, mi2) ==
  /\ IsPositiveNumeral(DigitRun(ma1)) /\ IsPositiveNumeral(DigitRun(mi1))
  /\ IsPositiveNumeral(DigitRun(ma2)) /\ IsPositiveNumeral(DigitRun(mi2))
  /\ DigitRun(ma1) = DigitRun(ma2)
  /\ DigitRun(mi1) = DigitRun(mi2)

\* The run has called exec with path p and ended the way a run of this entry
\* ends after exec: replaced, or back from the failed call.
EndedInExecOf(p) ==
  /\ execCall.called /\ execCall.path = p /\ kubectlFilepath = p
  /\ \/ pc = "replaced"
     \/ entry = "main" /\ pc = "exited" /\ exitCode = 0
     \/ entry = "Dispatch" /\ pc = "returned" /\ retErr = "exec failed"

\* How a run that got an answer must end, told from the error of the query,
\* the major and the minor of the answer, the client version, the directory
\* and the files alone.
OutcomeOf(major, minor) ==
  LET vpath == DirPrefix \o NameOf(major, minor)
      dpath == DirPrefix \o kubectlDefaultName
  IN IF entry = "Dispatch"
     THEN IF err # "" THEN pc = "returned" /\ retErr = err /\ ~execCall.called
          ELSE IF serverVersion.nil \/ clientVersion.nil
          THEN pc = "exited" /\ exitCode = 2 /\ ~execCall.called
          ELSE IF SameMajorMinor(clientVersion.Major, clientVersion.Minor,
                                 major, minor)
          THEN pc = "returned" /\ ~execCall.called /\ kubectlFilepath = ""
          ELSE IF vpath \in files THEN EndedInExecOf(vpath)
          ELSE /\ pc = "returned" /\ retErr = "stat failed"
               /\ kubectlFilepath = vpath /\ ~execCall.called
     ELSE IF err = "" /\ serverVersion.nil
          THEN pc = "exited" /\ exitCode = 2 /\ ~execCall.called
          ELSE IF err = "" /\ vpath \in files THEN EndedInExecOf(vpath)
          ELSE IF dpath \in files THEN EndedInExecOf(dpath)
          ELSE pc = "exited" /\ exitCode = 1 /\ ~execCall.called

\* C28: the GitVersion of the server never influences dispatch.  For every
\* other GitVersion string, VersionedFilePath and versionMatch give the same
\* result on the server's version and on that version with the GitVersion
\* replaced; and the path a run selects and the way it ends are determined by
\* the major and minor of the answer, whatever its GitVersion.
C28_GitVersionIsInformational ==
  /\ cluster.response = "version" =>
       \A g \in GitVersionsOfRun :
         LET v == cluster.version
             w == [v EXCEPT !.GitVersion = g]
         IN /\ VersionedFilePath(dirGetter, w) = VersionedFilePath(dirGetter, v)
            /\ versionMatch(clientVersion, w) = versionMatch(clientVersion, v)
            /\ versionMatch(w, clientVersion) = versionMatch(v, clientVersion)
            /\ VersionedFilePath(dirGetter, v) =
                 DirPrefix \o NameOf(v.Major, v.Minor)
  /\ (Terminal /\ Answered) => OutcomeOf(serverVersion.Major, serverVersion.Minor)

\* two answers 1.9 with different GitVersion strings: this one, with the empty
\* GitVersion, has ended in exec of kubectl.1.9
C28_Witness ==
  /\ entry = "Dispatch" /\ pc = "replaced"
  /\ serverVersion.Major = <<"1">> /\ serverVersion.Minor = <<" ", "9", "\n">>
  /\ serverVersion.GitVersion = ""
  /\ execCall.path = "/opt/bin/kubectl.1.9"

====
